---------------------------- MODULE Spec2Model ----------------------------
(***************************************************************************)
(* The frame buffer / request lifecycle of the PiCamera repository.        *)
(*                                                                         *)
(* Two implementations of the same lifecycle live in the repository and    *)
(* both are modelled; `impl` says which one a behaviour runs:              *)
(*   "CameraSensor"  the class of src/camera/CameraSensor.cpp              *)
(*                   (constructor, configCamera, startCamera, destructor) *)
(*   "captureFrame"  the C entry point of src/camera/camera.cpp            *)
(*                                                                         *)
(* The capture subsystem (libcamera) is the environment.  It is modelled   *)
(* at the interface the code uses: a camera state, the queue of Requests   *)
(* handed to the hardware (hwQueue, the Pending Requests), the queue of    *)
(* completion events not yet delivered (doneQ), and the delivery of one    *)
(* event at a time to the connected handler.  camera->stop() cancels       *)
(* every queued Request, delivers the cancellations to the handler and     *)
(* returns once nothing is outstanding.                                    *)
(*                                                                         *)
(* The completion handler runs on the camera thread.  Its position is the  *)
(* stack `hk` of statements still to execute; "catch_*" entries mark the   *)
(* end of a try block, so that a throw unwinds to the nearest one.         *)
(***************************************************************************)
EXTENDS Naturals, Integers, Sequences, FiniteSets, TLC

VARIABLES
    impl,           \* which implementation runs
    pc,             \* position of the application thread
    result,         \* what the last operation reported to its caller
    camState,       \* libcamera camera state
    connected,      \* number of slots connected to requestCompleted
    buffers,        \* FrameBuffers currently allocated by the allocator
    everAllocated,  \* FrameBuffers the allocator handed out during the session
    maps,           \* maps[b]: live mmap regions of buffer b's first plane
    mappedBuffers,  \* CameraSensor::mappedBuffers (keys)
    frameBuffers,   \* CameraSensor::frameBuffers[stream] (a queue)
    requests,       \* the vector `requests`: records [buf, status]
    requestsAlive,  \* the Request objects have not been destroyed
    meta,           \* meta[b]: buffer->metadata().status
    hwQueue,        \* Requests queued to the hardware, oldest first
    doneQ,          \* completion events not yet delivered to the handler
    hk,             \* handler: statements still to execute (<<>> = idle)
    hreq,           \* handler: the Request of the current/last invocation
    hStatus,        \* handler: request->status() of that invocation
    hMeta,          \* handler: metadata status of its buffer
    hBuf,           \* handler: the buffer bound at entry
    reading,        \* buffer whose mapped region the tracker is reading (0: none)
    nRender,        \* renderFrame calls made by the current/last invocation
    nQueue,         \* queueRequest calls made by the current/last invocation
    hErr,           \* a processing error was raised in this invocation
    escaped,        \* an exception left the completion handler
    qRejected,      \* the camera rejected some queueRequest call
    uaf,            \* the handler was entered with a destroyed Request
    stopPending,    \* Requests that were Pending when camera->stop() was called
    startFault,     \* the createRequest/addBuffer call that failed, if any
    todo,           \* teardown statements the application thread has left
    idx,            \* loop index of the application thread
    cmState,        \* the CameraManager behind the handle: null/started/stopped/deleted
    configFault,    \* the configuration call that failed, if any
    \* -- frame processing (renderFrame / FrameProcessor) --
    fImpl,          \* which frame processor runs, "none" outside frame processing
    debugMode,      \* FrameProcessor::debugMode
    rows,           \* gray.rows
    cols,           \* gray.cols
    slices,         \* number of slices
    gray,           \* the blurred grayscale image: mean of each band of rows
    fphase,         \* where the frame processor stands: idle/begin/loop/shown
    sliceHeight,    \* the local sliceHeight
    thresholdValue, \* renderFrame's local thresholdValue
    fpc,            \* the loop variable i: index of the next slice
    sliceIn,        \* per processed slice: what the primitives returned for it
    thresholds,     \* per processed slice: the threshold handed to cv::threshold
    contourCenters, \* the vector contourCenters
    sliceDirections,\* the vector sliceDirections (renderFrame)
    divisors,       \* divisors of the extent divisions performed so far
    dirty,          \* pixels of the mapped region that were written to
    \* -- one slice position followed from frame to frame --
    previousCentroidX, \* centroid X returned for the frame before (-1: none)
    trackIn,        \* contours found in the frame processed last
    trackOut,       \* centroid X returned for that frame (-1: none)
    \* -- the main program (brains.c) --
    mpc,            \* where main stands ("none": main is not modelled)
    running,        \* the flag `running`
    thState,        \* the camera thread: none/created/running/finished/joined
    nTerminate,     \* number of calls of cameraTerminate made by main
    loops           \* iterations of the wait loop so far

vars == <<impl, pc, result, camState, connected, buffers, everAllocated, maps,
          mappedBuffers, frameBuffers, requests, requestsAlive, meta, hwQueue,
          doneQ, hk, hreq, hStatus, hMeta, hBuf, reading, nRender, nQueue,
          hErr, escaped, qRejected, uaf, stopPending, startFault, todo, idx,
          cmState, configFault, fImpl, debugMode, rows, cols, slices, gray,
          fphase, sliceHeight, thresholdValue, fpc, sliceIn, thresholds, contourCenters, sliceDirections, divisors,
          dirty, previousCentroidX, trackIn, trackOut, mpc, running,
          thState, nTerminate, loops>>

mainVars == <<mpc, running, thState, nTerminate, loops>>

frameVars == <<fImpl, debugMode, rows, cols, slices, gray, fphase,
               sliceHeight, thresholdValue, fpc, sliceIn, thresholds,
               contourCenters, sliceDirections, divisors, dirty>>
trackVars == <<previousCentroidX, trackIn, trackOut>>

\* What no step of the buffer lifecycle touches.
restVars == <<impl, frameVars, trackVars, mainVars>>

appVars == <<restVars, pc, result, startFault, todo, idx, cmState, configFault>>
handlerVars == <<hk, hreq, hStatus, hMeta, hBuf, reading, nRender, nQueue,
                 hErr, escaped, uaf>>
memVars == <<buffers, everAllocated, maps, mappedBuffers, frameBuffers>>

\* Largest number of buffers the allocator hands out for the stream.
MaxBuffers == 3

BufferIds == 1..MaxBuffers

Range(s) == {s[i] : i \in 1..Len(s)}

---------------------------------------------------------------------------
(* libcamera interface *)

\* std::unique_ptr<Request> from camera->createRequest(): status
\* RequestPending, no buffer bound yet.
NewRequest == [buf |-> 0, status |-> "RequestPending"]

\* request->addBuffer(stream, buffer)
AddBuffer(req, b) == [req EXCEPT !.buf = b]

\* request->reuse(flags): back to RequestPending; the buffer map is kept only
\* with ReuseBuffers.
Reuse(req, flag) ==
    [req EXCEPT !.status = "RequestPending",
                !.buf = IF flag = "ReuseBuffers" THEN @ ELSE 0]

\* camera->queueRequest(r) is accepted only by a running camera and only for
\* a Request that carries a buffer; `ok` is the camera's own verdict.
Accepts(r, ok) == camState = "Running" /\ requests[r].buf # 0 /\ ok

\* The effect of one queueRequest call on the camera.
QueueRequest(r, ok) ==
    /\ hwQueue' = IF Accepts(r, ok) THEN Append(hwQueue, r) ELSE hwQueue
    /\ qRejected' = (qRejected \/ ~Accepts(r, ok))

---------------------------------------------------------------------------
(* exceptions inside the handler *)

CatchMarks == {"catch_rf", "catch_rc"}

\* Leaving a try block normally: the catch clause is skipped.
RECURSIVE Strip(_)
Strip(s) == IF s # <<>> /\ Head(s) \in CatchMarks THEN Strip(Tail(s)) ELSE s

\* A throw abandons every statement up to the nearest enclosing catch.
RECURSIVE Unwind(_)
Unwind(s) ==
    IF s = <<>> THEN <<>>
    ELSE IF Head(s) \in CatchMarks THEN Strip(Tail(s))
    ELSE Unwind(Tail(s))

Caught(s) == \E i \in 1..Len(s) : s[i] \in CatchMarks

---------------------------------------------------------------------------
\* No frame is being processed.
FrameIdle ==
    /\ fImpl = "none"
    /\ debugMode = FALSE
    /\ rows = 0
    /\ cols = 0
    /\ slices = 0
    /\ gray = [band |-> <<>>, tail |-> 0]
    /\ fphase = "idle"
    /\ sliceHeight = 0
    /\ thresholdValue = 0
    /\ fpc = 0
    /\ sliceIn = <<>>
    /\ thresholds = <<>>
    /\ contourCenters = <<>>
    /\ sliceDirections = <<>>
    /\ divisors = {}
    /\ dirty = {}

\* No capture session exists: the frame processors are exercised on their
\* own, on frames handed to them directly.
SessionIdle ==
    /\ impl = "none"
    /\ pc = "none"
    /\ result = "none"
    /\ camState = "Available"
    /\ connected = 0
    /\ buffers = {}
    /\ everAllocated = {}
    /\ maps = [b \in BufferIds |-> 0]
    /\ mappedBuffers = {}
    /\ frameBuffers = <<>>
    /\ requests = <<>>
    /\ requestsAlive = TRUE
    /\ meta = [b \in BufferIds |-> "FrameSuccess"]
    /\ hwQueue = <<>>
    /\ doneQ = <<>>
    /\ hk = <<>>
    /\ hreq = 0
    /\ hStatus = "none"
    /\ hMeta = "none"
    /\ hBuf = 0
    /\ reading = 0
    /\ nRender = 0
    /\ nQueue = 0
    /\ hErr = FALSE
    /\ escaped = FALSE
    /\ qRejected = FALSE
    /\ uaf = FALSE
    /\ stopPending = 0
    /\ startFault = "none"
    /\ todo = <<>>
    /\ idx = 0
    /\ cmState = "null"
    /\ configFault = "none"

\* The main program is not running.
MainIdle ==
    /\ mpc = "none"
    /\ running = 1
    /\ thState = "none"
    /\ nTerminate = 0
    /\ loops = 0

\* No frame has been followed yet.
TrackIdle ==
    /\ previousCentroidX = -1
    /\ trackIn = <<>>
    /\ trackOut = -1

Init ==
    /\ impl \in {"CameraSensor", "captureFrame"}
    /\ pc = IF impl = "CameraSensor" THEN "constructed" ELSE "cf_handle"
    /\ result = "none"
    \* the CameraSensor constructor has acquired the camera (or exited)
    /\ camState = IF impl = "CameraSensor" THEN "Acquired" ELSE "Available"
    /\ connected = 0
    /\ buffers = {}
    /\ everAllocated = {}
    /\ maps = [b \in BufferIds |-> 0]
    /\ mappedBuffers = {}
    /\ frameBuffers = <<>>
    /\ requests = <<>>
    /\ requestsAlive = TRUE
    /\ meta = [b \in BufferIds |-> "FrameSuccess"]
    /\ hwQueue = <<>>
    /\ doneQ = <<>>
    /\ hk = <<>>
    /\ hreq = 0
    /\ hStatus = "none"
    /\ hMeta = "none"
    /\ hBuf = 0
    /\ reading = 0
    /\ nRender = 0
    /\ nQueue = 0
    /\ hErr = FALSE
    /\ escaped = FALSE
    /\ qRejected = FALSE
    /\ uaf = FALSE
    /\ stopPending = 0
    /\ startFault = "none"
    /\ todo = <<>>
    /\ idx = 0
    \* cameraInit returned a started manager, or the caller passes no handle;
    \* the CameraSensor constructor has started its own manager
    /\ cmState \in IF impl = "CameraSensor" THEN {"started"}
                   ELSE {"null", "started"}
    /\ configFault = "none"
    /\ FrameIdle
    /\ TrackIdle
    /\ MainIdle

---------------------------------------------------------------------------
(* the capture subsystem *)

\* The hardware finishes the oldest Pending Request: the library marks it
\* RequestComplete, stores the frame status in the buffer's metadata and
\* raises a completion event.
HwComplete ==
    /\ camState = "Running"
    /\ hwQueue # <<>>
    /\ \E fs \in {"FrameSuccess", "FrameError"} :
        LET r == Head(hwQueue)
            b == requests[r].buf
        IN /\ requests' = [requests EXCEPT ![r].status = "RequestComplete"]
           /\ meta' = IF b = 0 THEN meta ELSE [meta EXCEPT ![b] = fs]
           /\ hwQueue' = Tail(hwQueue)
           /\ doneQ' = Append(doneQ, r)
    /\ UNCHANGED <<appVars, handlerVars, memVars, camState, connected,
                   requestsAlive, qRejected, stopPending>>

\* While camera->stop() is in progress every Request still queued is
\* cancelled, and a completion event is raised for it.
HwCancel ==
    /\ camState = "Stopping"
    /\ hwQueue # <<>>
    /\ LET r == Head(hwQueue)
           b == requests[r].buf
       IN /\ requests' = [requests EXCEPT ![r].status = "RequestCancelled"]
          /\ meta' = IF b = 0 THEN meta
                     ELSE [meta EXCEPT ![b] = "FrameCancelled"]
          /\ hwQueue' = Tail(hwQueue)
          /\ doneQ' = Append(doneQ, r)
    /\ UNCHANGED <<appVars, handlerVars, memVars, camState, connected,
                   requestsAlive, qRejected, stopPending>>

\* The requestCompleted signal is emitted for the oldest undelivered event.
\* Slots run one at a time on the camera thread; with no slot connected the
\* event is lost.
Dispatch ==
    /\ hk = <<>>
    /\ doneQ # <<>>
    /\ LET r == Head(doneQ)
           b == requests[r].buf
       IN /\ doneQ' = Tail(doneQ)
          /\ IF connected = 0
             THEN UNCHANGED handlerVars
             ELSE /\ hk' = <<"status">>
                  /\ hreq' = r
                  /\ hStatus' = requests[r].status
                  /\ hMeta' = IF b = 0 THEN "none" ELSE meta[b]
                  /\ hBuf' = b
                  /\ nRender' = 0
                  /\ nQueue' = 0
                  /\ hErr' = FALSE
                  /\ uaf' = (uaf \/ ~requestsAlive)
                  /\ UNCHANGED <<reading, escaped>>
    /\ UNCHANGED <<appVars, memVars, camState, connected, requests,
                   requestsAlive, meta, hwQueue, qRejected, stopPending>>

---------------------------------------------------------------------------
(* teardown statements, shared by both implementations *)

\* camera->stop() is called: a running camera starts stopping and the caller
\* blocks; on a camera that is not running the call fails at once.
CameraStopCall ==
    /\ pc = "teardown"
    /\ todo # <<>> /\ Head(todo) = "stop"
    /\ IF camState = "Running"
       THEN /\ camState' = "Stopping"
            /\ stopPending' = Len(hwQueue)
            /\ pc' = "in_stop"
            /\ todo' = todo
       ELSE /\ todo' = Tail(todo)
            /\ UNCHANGED <<camState, stopPending, pc>>
    /\ UNCHANGED <<restVars, cmState,
                   configFault, result, startFault, idx, handlerVars, memVars,
                   connected, requests, requestsAlive, meta, hwQueue, doneQ,
                   qRejected>>

\* camera->stop() returns once no Request is queued, no completion event is
\* undelivered and the handler has returned.
CameraStopReturn ==
    /\ pc = "in_stop"
    /\ hwQueue = <<>> /\ doneQ = <<>> /\ hk = <<>>
    /\ camState' = "Configured"
    /\ pc' = "teardown"
    /\ todo' = Tail(todo)
    /\ UNCHANGED <<restVars, cmState,
                   configFault, result, startFault, idx, handlerVars, memVars,
                   connected, requests, requestsAlive, meta, hwQueue, doneQ,
                   qRejected, stopPending>>

\* allocator->free(stream) / destruction of the FrameBufferAllocator: the
\* FrameBuffers are gone.  Regions the application mapped itself stay mapped.
AllocatorFree ==
    /\ pc = "teardown"
    /\ todo # <<>> /\ Head(todo) = "free"
    /\ buffers' = {}
    /\ todo' = Tail(todo)
    /\ UNCHANGED <<restVars, cmState,
                   configFault, pc, result, startFault, idx, handlerVars,
                   everAllocated, maps, mappedBuffers, frameBuffers, camState,
                   connected, requests, requestsAlive, meta, hwQueue, doneQ,
                   qRejected, stopPending>>

\* camera->release(): refused (-EBUSY) while the camera runs.
CameraRelease ==
    /\ pc = "teardown"
    /\ todo # <<>> /\ Head(todo) = "release"
    /\ camState' = IF camState \in {"Acquired", "Configured"}
                   THEN "Available" ELSE camState
    /\ todo' = Tail(todo)
    /\ UNCHANGED <<restVars, cmState,
                   configFault, pc, result, startFault, idx, handlerVars, memVars,
                   connected, requests, requestsAlive, meta, hwQueue, doneQ,
                   qRejected, stopPending>>

\* cameraManager->stop()
ManagerStop ==
    /\ pc = "teardown"
    /\ todo # <<>> /\ Head(todo) = "cmStop"
    /\ cmState' = "stopped"
    /\ todo' = Tail(todo)
    /\ UNCHANGED <<restVars, configFault, pc, result, startFault, idx,
                   handlerVars, memVars, camState, connected, requests,
                   requestsAlive, meta, hwQueue, doneQ, qRejected, stopPending>>

---------------------------------------------------------------------------
(* captureFrame, src/camera/camera.cpp: the application thread *)

\* Everything of the capture subsystem and of the handler that a step of the
\* application thread leaves alone unless it says otherwise.
quietVars == <<handlerVars, memVars, connected, requests, meta, hwQueue,
               doneQ, qRejected, stopPending, startFault, todo, idx, restVars>>

\* `return code;` from captureFrame: the local vector `requests` goes out of
\* scope and destroys the Request objects it owns.
CF_Return(code) ==
    /\ pc' = "returned"
    /\ result' = code
    /\ requestsAlive' = FALSE

\* if (!cm) return -1;
CF_handle ==
    /\ impl = "captureFrame" /\ pc = "cf_handle"
    /\ IF cmState = "null" THEN CF_Return("-1")
       ELSE pc' = "cf_cameras" /\ UNCHANGED <<result, requestsAlive>>
    /\ UNCHANGED <<quietVars, camState, cmState, configFault>>

\* if (cameras.empty()) return -2;
CF_cameras ==
    /\ impl = "captureFrame" /\ pc = "cf_cameras"
    /\ \E empty \in BOOLEAN :
        IF empty THEN CF_Return("-2")
        ELSE pc' = "cf_acquire" /\ UNCHANGED <<result, requestsAlive>>
    /\ UNCHANGED <<quietVars, camState, cmState, configFault>>

\* if (camera->acquire() != 0) return -3;
CF_acquire ==
    /\ impl = "captureFrame" /\ pc = "cf_acquire"
    /\ \E ok \in BOOLEAN :
        IF ok
        THEN /\ camState' = "Acquired"
             /\ pc' = "cf_generate"
             /\ UNCHANGED <<result, requestsAlive>>
        ELSE CF_Return("-3") /\ UNCHANGED camState
    /\ UNCHANGED <<quietVars, cmState, configFault>>

\* if (!config) return -4;
CF_generate ==
    /\ impl = "captureFrame" /\ pc = "cf_generate"
    /\ \E ok \in BOOLEAN :
        IF ok THEN /\ pc' = "cf_configure"
                   /\ UNCHANGED <<result, requestsAlive, configFault>>
        ELSE CF_Return("-4") /\ configFault' = "generate"
    /\ UNCHANGED <<quietVars, camState, cmState>>

\* if (camera->configure(config.get()) != 0) return -5;
CF_configure ==
    /\ impl = "captureFrame" /\ pc = "cf_configure"
    /\ \E ok \in BOOLEAN :
        IF ok
        THEN /\ camState' = "Configured"
             /\ pc' = "cf_allocate"
             /\ UNCHANGED <<result, requestsAlive, configFault>>
        ELSE CF_Return("-5") /\ configFault' = "configure" /\ UNCHANGED camState
    /\ UNCHANGED <<quietVars, cmState>>

\* if (allocator->allocate(cfg.stream()) < 0) return -6;  the single stream
\* of the configuration gets n buffers.
CF_allocate ==
    /\ impl = "captureFrame" /\ pc = "cf_allocate"
    /\ \/ /\ CF_Return("-6")
          /\ configFault' = "allocate"
          /\ UNCHANGED <<buffers, everAllocated, idx>>
       \/ \E n \in 1..MaxBuffers :
            /\ buffers' = 1..n
            /\ everAllocated' = 1..n
            /\ pc' = "cf_create"
            /\ idx' = 1
            /\ UNCHANGED <<result, requestsAlive, configFault>>
    /\ UNCHANGED <<handlerVars, maps, mappedBuffers, frameBuffers, connected,
                   requests, meta, hwQueue, doneQ, qRejected, stopPending,
                   startFault, todo, restVars, cmState, camState>>

\* Variant: every Request is given the first buffer of the stream.
CF_bufferOf_front(i) == 1

\* const std::unique_ptr<FrameBuffer> &buffer = buffers[i];
CF_bufferOf(i) == i

\* Variant: a failed createRequest/addBuffer is skipped and the loop goes on.
CF_createFailed_continue(code) ==
    [pc |-> "cf_create", result |-> "none", alive |-> TRUE]

\* What the creation loop does when createRequest or addBuffer fails:
\* `return -7;` / `return -8;`.
CF_createFailed(code) == [pc |-> "returned", result |-> code, alive |-> FALSE]

\* One iteration of the loop that fills the request vector, and its exit.
CF_create ==
    /\ impl = "captureFrame" /\ pc = "cf_create"
    /\ IF idx > Cardinality(buffers)
       THEN /\ pc' = "cf_connect"
            /\ UNCHANGED <<result, requestsAlive, requests, startFault, idx>>
       ELSE \E outcome \in {"ok", "createRequest", "addBuffer"} :
            IF outcome = "ok"
            THEN /\ requests' = Append(requests,
                                       AddBuffer(NewRequest, CF_bufferOf(idx)))
                 /\ idx' = idx + 1
                 /\ UNCHANGED <<pc, result, requestsAlive, startFault>>
            ELSE LET f == CF_createFailed(IF outcome = "createRequest"
                                          THEN "-7" ELSE "-8")
                 IN /\ startFault' = outcome
                    /\ pc' = f.pc
                    /\ result' = f.result
                    /\ requestsAlive' = f.alive
                    /\ idx' = idx + 1
                    /\ UNCHANGED requests
    /\ UNCHANGED <<handlerVars, memVars, connected, meta, hwQueue, doneQ,
                   qRejected, stopPending, todo, restVars, cmState,
                   configFault, camState>>

\* camera->requestCompleted.connect(requestComplete);
CF_connect ==
    /\ impl = "captureFrame" /\ pc = "cf_connect"
    /\ connected' = connected + 1
    /\ pc' = "cf_start"
    /\ UNCHANGED <<handlerVars, memVars, requests, meta, hwQueue, doneQ,
                   qRejected, stopPending, startFault, todo, idx, restVars, cmState,
                   configFault,
                   camState, result, requestsAlive>>

\* if (camera->start() != 0) return -9;
CF_start ==
    /\ impl = "captureFrame" /\ pc = "cf_start"
    /\ \E ok \in BOOLEAN :
        IF ok
        THEN /\ camState' = "Running"
             /\ pc' = "cf_queue"
             /\ idx' = 1
             /\ UNCHANGED <<result, requestsAlive>>
        ELSE CF_Return("-9") /\ UNCHANGED <<camState, idx>>
    /\ UNCHANGED <<handlerVars, memVars, connected, requests, meta, hwQueue,
                   doneQ, qRejected, stopPending, startFault, todo, restVars, cmState,
                   configFault>>

\* Variant: the buffers are freed before the camera is stopped.
CF_teardown_freeFirst == <<"free", "stop", "release">>

\* A variant that also stops the manager before returning.
CF_teardown_stopsManager == <<"stop", "free", "release", "cmStop">>

\* The statements that release the session after the 3 s capture window.
CF_teardown == <<"stop", "free", "release">>

\* One iteration of the loop that queues the created requests
\* (`return -10;` when the camera rejects one); after the last one the
\* thread sleeps for the capture window.
CF_queue ==
    /\ impl = "captureFrame" /\ pc = "cf_queue"
    /\ IF idx > Len(requests)
       THEN /\ pc' = "cf_sleep"
            /\ UNCHANGED <<result, requestsAlive, hwQueue, qRejected, idx>>
       ELSE \E ok \in BOOLEAN :
            /\ QueueRequest(idx, ok)
            /\ IF Accepts(idx, ok)
               THEN idx' = idx + 1 /\ UNCHANGED <<pc, result, requestsAlive>>
               ELSE CF_Return("-10") /\ UNCHANGED idx
    /\ UNCHANGED <<handlerVars, memVars, connected, requests, meta, doneQ,
                   stopPending, startFault, todo, restVars, cmState,
                   configFault, camState>>

\* std::this_thread::sleep_for(3000 ms) ends; the release statements follow.
CF_sleep ==
    /\ impl = "captureFrame" /\ pc = "cf_sleep"
    /\ pc' = "teardown"
    /\ todo' = CF_teardown
    /\ UNCHANGED <<handlerVars, memVars, connected, requests, meta, hwQueue,
                   doneQ, qRejected, stopPending, startFault, idx, restVars, cmState,
                   configFault,
                   camState, result, requestsAlive>>

\* return 0;
CF_return0 ==
    /\ impl = "captureFrame" /\ pc = "teardown" /\ todo = <<>>
    /\ CF_Return("0")
    /\ UNCHANGED <<quietVars, camState, cmState, configFault>>

\* cameraTerminate(cmHandle), called by the owner of the handle once
\* captureFrame has returned: if (cm) { cm->stop(); delete cm; }
cameraTerminate ==
    /\ impl = "captureFrame" /\ pc = "returned"
    /\ cmState = "started"
    /\ cmState' = "deleted"
    /\ UNCHANGED <<quietVars, camState, configFault, pc, result,
                   requestsAlive>>

---------------------------------------------------------------------------
(* the completion handlers *)

\* An exception is thrown with `rest` still to execute: control resumes
\* after the nearest catch, or the exception leaves the handler.
Throw(rest) ==
    /\ hErr' = TRUE
    /\ IF Caught(rest)
       THEN hk' = Unwind(rest) /\ escaped' = escaped
       ELSE hk' = <<>> /\ escaped' = TRUE

\* What every handler step leaves alone unless it says otherwise.
calmVars == <<appVars, connected, requestsAlive, meta, doneQ, stopPending,
              camState, buffers, everAllocated, mappedBuffers, frameBuffers,
              hreq, hStatus, hMeta, hBuf, uaf>>

(* requestComplete of src/camera/camera.cpp *)

\* Variant: the cancellation test is missing.
CF_isCancelled_never(r) == FALSE

\* request->status() == libcamera::Request::RequestCancelled
CF_isCancelled(r) == requests[r].status = "RequestCancelled"

\* Variant: the Request is queued a second time.
CF_requestCompleteBody_twice ==
    <<"metadata", "reuse", "queueRequest", "queueRequest">>

\* The statements of requestComplete after the cancellation test: the loop
\* over the request's buffers, then reuse and queueRequest.
CF_requestCompleteBody == <<"metadata", "reuse", "queueRequest">>

\* The try block of requestComplete's loop body and its catch clause.
CF_loopTry == <<"renderFrame", "catch_rc">>

\* The try block of renderFrame (after the MapBuffer is constructed) and its
\* catch clause.
CF_renderFrameTry == <<"process", "catch_rf">>

\* request->reuse(libcamera::Request::ReuseBuffers)
CF_reuseFlag == "ReuseBuffers"

CF_rc_status ==
    /\ impl = "captureFrame" /\ hk # <<>> /\ Head(hk) = "status"
    /\ hk' = IF CF_isCancelled(hreq) THEN <<>> ELSE CF_requestCompleteBody
    /\ UNCHANGED <<calmVars, requests, hwQueue, qRejected, maps, reading,
                   nRender, nQueue, hErr, escaped>>

\* for (auto &[stream, buffer] : buffers)
\*     if (buffer->metadata().status == FrameSuccess) try { ... }
CF_rc_metadata ==
    /\ impl = "captureFrame" /\ hk # <<>> /\ Head(hk) = "metadata"
    /\ LET b == requests[hreq].buf
       IN hk' = IF b # 0 /\ meta[b] = "FrameSuccess"
                THEN CF_loopTry \o Tail(hk)
                ELSE Tail(hk)
    /\ UNCHANGED <<calmVars, requests, hwQueue, qRejected, maps, reading,
                   nRender, nQueue, hErr, escaped>>

\* renderFrame is entered: inside its try block a MapBuffer maps the first
\* plane (the constructor throws on an invalid plane or a failed mmap).
CF_renderFrame ==
    /\ impl = "captureFrame" /\ hk # <<>> /\ Head(hk) = "renderFrame"
    /\ nRender' = nRender + 1
    /\ LET b == requests[hreq].buf
       IN \E mapped \in BOOLEAN :
            IF mapped
            THEN /\ maps' = [maps EXCEPT ![b] = @ + 1]
                 /\ reading' = b
                 /\ hk' = CF_renderFrameTry \o Tail(hk)
                 /\ UNCHANGED <<hErr, escaped>>
            ELSE /\ Throw(Tail(CF_renderFrameTry) \o Tail(hk))
                 /\ UNCHANGED <<maps, reading>>
    /\ UNCHANGED <<calmVars, requests, hwQueue, qRejected, nQueue>>

\* The frame is converted and written out, or a primitive throws; either way
\* the MapBuffer goes out of scope and unmaps the region.
CF_process ==
    /\ impl = "captureFrame" /\ hk # <<>> /\ Head(hk) = "process"
    /\ maps' = [maps EXCEPT ![reading] = @ - 1]
    /\ reading' = 0
    /\ \E ok \in BOOLEAN :
        IF ok THEN hk' = Strip(Tail(hk)) /\ UNCHANGED <<hErr, escaped>>
        ELSE Throw(Tail(hk))
    /\ UNCHANGED <<calmVars, requests, hwQueue, qRejected, nRender, nQueue>>

CF_reuse ==
    /\ impl = "captureFrame" /\ hk # <<>> /\ Head(hk) = "reuse"
    /\ requests' = [requests EXCEPT ![hreq] = Reuse(@, CF_reuseFlag)]
    /\ hk' = Strip(Tail(hk))
    /\ UNCHANGED <<calmVars, hwQueue, qRejected, maps, reading, nRender,
                   nQueue, hErr, escaped>>

\* camera->queueRequest(request);
CF_queueRequest ==
    /\ impl = "captureFrame" /\ hk # <<>> /\ Head(hk) = "queueRequest"
    /\ QueueRequest(hreq, TRUE)
    /\ nQueue' = nQueue + 1
    /\ hk' = Strip(Tail(hk))
    /\ UNCHANGED <<calmVars, requests, maps, reading, nRender, hErr, escaped>>

(* CameraSensor::requestComplete of src/camera/CameraSensor.cpp *)

\* request->status() == Request::RequestCancelled
CS_isCancelled(r) == requests[r].status = "RequestCancelled"

\* Variant: the Request is resubmitted before the frame is rendered.
CS_tryBody_queueFirst == <<"reuse", "queueRequest", "renderFrame">>

\* The try block inside the FrameSuccess test of requestComplete.
CS_tryBody == <<"renderFrame", "reuse", "queueRequest">>

\* Variant: renderFrame does not catch what its primitives throw.
CS_renderFrameTry_nocatch == <<"process">>

\* The try block of CameraSensor::renderFrame and its catch clause.
CS_renderFrameTry == <<"process", "catch_rf">>

\* request->reuse(Request::ReuseBuffers)
CS_reuseFlag == "ReuseBuffers"

CS_rc_status ==
    /\ impl = "CameraSensor" /\ hk # <<>> /\ Head(hk) = "status"
    /\ hk' = IF CS_isCancelled(hreq) THEN <<>> ELSE <<"metadata">>
    /\ UNCHANGED <<calmVars, requests, hwQueue, qRejected, maps, reading,
                   nRender, nQueue, hErr, escaped>>

\* for (auto &[stream, buffer] : buffers)
\*     if (buffer->metadata().status == FrameSuccess) try { ... } catch ...
\* Nothing follows the loop.
CS_rc_metadata ==
    /\ impl = "CameraSensor" /\ hk # <<>> /\ Head(hk) = "metadata"
    /\ LET b == requests[hreq].buf
       IN hk' = IF b # 0 /\ meta[b] = "FrameSuccess"
                THEN CS_tryBody \o <<"catch_rc">> \o Tail(hk)
                ELSE Strip(Tail(hk))
    /\ UNCHANGED <<calmVars, requests, hwQueue, qRejected, maps, reading,
                   nRender, nQueue, hErr, escaped>>

\* renderFrame is entered: the pre-mapped region of the buffer is looked up
\* (the function returns at once when there is none) and handed to OpenCV.
CS_renderFrame ==
    /\ impl = "CameraSensor" /\ hk # <<>> /\ Head(hk) = "renderFrame"
    /\ nRender' = nRender + 1
    /\ LET b == requests[hreq].buf
       IN IF b \in mappedBuffers
          THEN reading' = b /\ hk' = CS_renderFrameTry \o Tail(hk)
          ELSE reading' = reading /\ hk' = Strip(Tail(hk))
    /\ UNCHANGED <<calmVars, requests, hwQueue, qRejected, maps, nQueue,
                   hErr, escaped>>

\* The slices are analysed and the frame is shown, or a primitive throws.
CS_process ==
    /\ impl = "CameraSensor" /\ hk # <<>> /\ Head(hk) = "process"
    /\ reading' = 0
    /\ \E ok \in BOOLEAN :
        IF ok THEN hk' = Strip(Tail(hk)) /\ UNCHANGED <<hErr, escaped>>
        ELSE Throw(Tail(hk))
    /\ UNCHANGED <<calmVars, requests, hwQueue, qRejected, maps, nRender,
                   nQueue>>

CS_reuse ==
    /\ impl = "CameraSensor" /\ hk # <<>> /\ Head(hk) = "reuse"
    /\ requests' = [requests EXCEPT ![hreq] = Reuse(@, CS_reuseFlag)]
    /\ hk' = Strip(Tail(hk))
    /\ UNCHANGED <<calmVars, hwQueue, qRejected, maps, reading, nRender,
                   nQueue, hErr, escaped>>

\* camera->queueRequest(request);
CS_queueRequest ==
    /\ impl = "CameraSensor" /\ hk # <<>> /\ Head(hk) = "queueRequest"
    /\ QueueRequest(hreq, TRUE)
    /\ nQueue' = nQueue + 1
    /\ hk' = Strip(Tail(hk))
    /\ UNCHANGED <<calmVars, requests, maps, reading, nRender, hErr, escaped>>

---------------------------------------------------------------------------
(* CameraSensor, src/camera/CameraSensor.cpp: the application thread.      *)
(* The owner of the object calls configCamera, then startCamera, and       *)
(* destroys the object at any later time.                                  *)

\* configCamera, first part: camera->configure(config.get()) != 0 returns
\* -EINVAL.  The configuration holds the one stream generated for { role }.
CS_configure ==
    /\ impl = "CameraSensor" /\ pc = "constructed"
    /\ \E ok \in BOOLEAN :
        IF ok
        THEN /\ camState' = "Configured" /\ pc' = "cc_allocate"
             /\ UNCHANGED <<result, configFault>>
        ELSE /\ camState' = camState /\ pc' = "configFailed"
             /\ result' = "-EINVAL" /\ configFault' = "configure"
    /\ UNCHANGED <<quietVars, requestsAlive, cmState>>

\* A variant of the failure branch that carries on as if the allocation had
\* succeeded: the loop over the (empty) buffer list runs and 0 is returned.
CS_allocateFailed_ignored ==
    /\ pc' = "configured"
    /\ result' = "0"

\* if (ret < 0) { ...; return -ENOMEM; }
CS_allocateFailed ==
    /\ pc' = "configFailed"
    /\ result' = "-ENOMEM"

\* allocator->allocate(cfg.stream()) < 0 returns -ENOMEM.
CS_allocate ==
    /\ impl = "CameraSensor" /\ pc = "cc_allocate"
    /\ \/ /\ CS_allocateFailed
          /\ configFault' = "allocate"
          /\ UNCHANGED <<buffers, everAllocated, idx>>
       \/ \E n \in 1..MaxBuffers :
            /\ buffers' = 1..n
            /\ everAllocated' = 1..n
            /\ pc' = "cc_map"
            /\ idx' = 1
            /\ UNCHANGED <<result, configFault>>
    /\ UNCHANGED <<handlerVars, maps, mappedBuffers, frameBuffers, connected,
                   requests, meta, hwQueue, doneQ, qRejected, stopPending,
                   startFault, todo, restVars, cmState, camState,
                   requestsAlive>>

\* One iteration of the loop over the stream's buffers: plane 0 is mapped
\* (a failed mmap throws), the Span is stored in mappedBuffers and the buffer
\* is pushed on frameBuffers[stream].  After the last buffer: return 0.
CS_map ==
    /\ impl = "CameraSensor" /\ pc = "cc_map"
    /\ IF idx > Cardinality(buffers)
       THEN /\ pc' = "configured"
            /\ result' = "0"
            /\ UNCHANGED <<maps, mappedBuffers, frameBuffers, idx, configFault>>
       ELSE \E ok \in BOOLEAN :
            IF ok
            THEN /\ maps' = [maps EXCEPT ![idx] = @ + 1]
                 /\ mappedBuffers' = mappedBuffers \cup {idx}
                 /\ frameBuffers' = Append(frameBuffers, idx)
                 /\ idx' = idx + 1
                 /\ UNCHANGED <<pc, result, configFault>>
            ELSE /\ pc' = "configFailed"
                 /\ result' = "threw"
                 /\ configFault' = "mmap"
                 /\ UNCHANGED <<maps, mappedBuffers, frameBuffers, idx>>
    /\ UNCHANGED <<handlerVars, buffers, everAllocated, connected, requests,
                   meta, hwQueue, doneQ, qRejected, stopPending, startFault,
                   todo, restVars, cmState, camState, requestsAlive>>

\* FrameBuffer* buffer = frameBuffers[stream].front();
CS_bufferOf(q) == Head(q)

\* What sendRequests does when createRequest or addBuffer fails: it throws
\* std::runtime_error, which leaves startCamera.
CS_sendFailed == [pc |-> "startFailed", result |-> "threw"]

\* sendRequests: the loop runs once per StreamConfiguration of `config`, that
\* is once.  The Request is pushed on `requests` before its buffer is added.
CS_sendRequests ==
    /\ impl = "CameraSensor" /\ pc = "configured"
    /\ \E outcome \in {"ok", "createRequest", "addBuffer"} :
        /\ requests' =
             IF outcome = "createRequest" THEN requests
             ELSE IF outcome = "addBuffer" THEN Append(requests, NewRequest)
             ELSE Append(requests,
                         AddBuffer(NewRequest, CS_bufferOf(frameBuffers)))
        /\ IF outcome = "ok"
           THEN pc' = "sc_connect" /\ UNCHANGED <<result, startFault>>
           ELSE /\ pc' = CS_sendFailed.pc
                /\ result' = CS_sendFailed.result
                /\ startFault' = outcome
    /\ UNCHANGED <<handlerVars, memVars, connected, meta, hwQueue, doneQ,
                   qRejected, stopPending, todo, idx, restVars, cmState,
                   configFault, camState,
                   requestsAlive>>

\* A variant in which the connect statement comes after the queue loop:
\* nothing is connected at this point of startCamera.
CS_connect_afterQueue ==
    /\ impl = "CameraSensor" /\ pc = "sc_connect"
    /\ pc' = "sc_start"
    /\ UNCHANGED <<handlerVars, memVars, connected, requests, meta, hwQueue,
                   doneQ, qRejected, stopPending, startFault, todo, idx,
                   restVars, cmState, configFault, camState, result,
                   requestsAlive>>

\* camera->requestCompleted.connect(this, &CameraSensor::requestComplete);
CS_connect ==
    /\ impl = "CameraSensor" /\ pc = "sc_connect"
    /\ connected' = connected + 1
    /\ pc' = "sc_start"
    /\ UNCHANGED <<handlerVars, memVars, requests, meta, hwQueue, doneQ,
                   qRejected, stopPending, startFault, todo, idx, restVars, cmState,
                   configFault,
                   camState, result, requestsAlive>>

\* camera->start();  the return value is not looked at.
CS_start ==
    /\ impl = "CameraSensor" /\ pc = "sc_start"
    /\ \E ok \in BOOLEAN :
        camState' = IF ok THEN "Running" ELSE camState
    /\ pc' = "sc_queue"
    /\ idx' = 1
    /\ UNCHANGED <<handlerVars, memVars, connected, requests, meta, hwQueue,
                   doneQ, qRejected, stopPending, startFault, todo, restVars, cmState,
                   configFault,
                   result, requestsAlive>>

\* One iteration of the loop that queues `requests` (the return value of
\* queueRequest is not looked at); after the last one startCamera returns.
CS_queue ==
    /\ impl = "CameraSensor" /\ pc = "sc_queue"
    /\ IF idx > Len(requests)
       THEN /\ pc' = "started"
            /\ result' = "ok"
            /\ UNCHANGED <<hwQueue, qRejected, idx>>
       ELSE /\ \E ok \in BOOLEAN : QueueRequest(idx, ok)
            /\ idx' = idx + 1
            /\ UNCHANGED <<pc, result>>
    /\ UNCHANGED <<handlerVars, memVars, connected, requests, meta, doneQ,
                   stopPending, startFault, todo, restVars, cmState,
                   configFault, camState,
                   requestsAlive>>

\* The destructor body (camera->stop(); camera->release(); ...) followed by
\* the destruction of the members, which frees the allocator's buffers.
\* Nothing unmaps the Spans of mappedBuffers.
CS_teardown == <<"stop", "release", "cmStop", "free">>

\* The object is destroyed between two operations.
CS_destroy ==
    /\ impl = "CameraSensor"
    /\ pc \in {"constructed", "configFailed", "configured", "startFailed",
               "started"}
    /\ pc' = "teardown"
    /\ todo' = CS_teardown
    /\ UNCHANGED <<handlerVars, memVars, connected, requests, meta, hwQueue,
                   doneQ, qRejected, stopPending, startFault, idx, restVars, cmState,
                   configFault,
                   camState, result, requestsAlive>>

\* The members are gone: the Requests of `requests` are destroyed.
CS_destroyed ==
    /\ impl = "CameraSensor" /\ pc = "teardown" /\ todo = <<>>
    /\ pc' = "destroyed"
    /\ requestsAlive' = FALSE
    /\ UNCHANGED <<quietVars, camState, result, cmState, configFault>>

---------------------------------------------------------------------------
Environment == HwComplete \/ HwCancel \/ Dispatch

Teardown ==
    \/ CameraStopCall \/ CameraStopReturn \/ AllocatorFree \/ CameraRelease
    \/ ManagerStop

CaptureFrame ==
    \/ CF_handle \/ CF_cameras \/ CF_acquire \/ CF_generate \/ CF_configure
    \/ CF_allocate \/ CF_create \/ CF_connect \/ CF_start \/ CF_queue
    \/ CF_sleep \/ CF_return0 \/ cameraTerminate
    \/ CF_rc_status \/ CF_rc_metadata \/ CF_renderFrame \/ CF_process
    \/ CF_reuse \/ CF_queueRequest

CameraSensor ==
    \/ CS_configure \/ CS_allocate \/ CS_map \/ CS_sendRequests \/ CS_connect
    \/ CS_start \/ CS_queue \/ CS_destroy \/ CS_destroyed
    \/ CS_rc_status \/ CS_rc_metadata \/ CS_renderFrame \/ CS_process
    \/ CS_reuse \/ CS_queueRequest

Next == Environment \/ Teardown \/ CaptureFrame \/ CameraSensor

Spec == Init /\ [][Next]_vars

---------------------------------------------------------------------------
(* the line tracker: CameraSensor::renderFrame and FrameProcessor *)

\* Largest frame height enumerated next to the full-size frame, largest
\* slice count handed to FrameProcessor, and the width of the frames.
MaxRows == 5
MaxSlices == 3
FrameCols == 8
\* Height of a full-size frame.
FullRows == 480

\* int slices = 4;  in renderFrame
RenderFrameSlices == 4
\* meanIntensity * 0.95, in hundredths
MeanIntensityMult == 95
\* if (thresholdValue < 90) thresholdValue = 90;
MinThreshold == 90
\* if (thresholdValue > 170) thresholdValue = 170;
MaxThreshold == 170

\* Mean intensities a band of rows is given: black, mid grey, white.
SampleMeans == {0, 100, 255}

\* Conversion of a double to int truncates toward zero.
TruncDiv(a, b) == IF a >= 0 THEN a \div b ELSE -((-a) \div b)

\* std::clamp(v, lo, hi), and the two ifs of renderFrame.
Clamp(v, lo, hi) == IF v < lo THEN lo ELSE IF v > hi THEN hi ELSE v

\* static_cast<int>(mean * k) clamped; the mean is the fraction num / den.
ThresholdOf(num, den) ==
    Clamp((num * MeanIntensityMult) \div (den * 100), MinThreshold,
          MaxThreshold)

\* cv::mean(gray)[0] over the whole image, as a fraction: the sum of all
\* pixel rows (each slice band and the rows left over below the last slice)
\* over the number of rows.
RECURSIVE SumSeq(_)
SumSeq(q) == IF q = <<>> THEN 0 ELSE Head(q) + SumSeq(Tail(q))
ImageSum(g, sh, r) == sh * SumSeq(g.band) + (r - sh * Len(g.band)) * g.tail

\* A contour as findContours returns it: the closed outline of a blob that
\* spans the pixel columns x0..x1 over h rows of the slice.
\* cv::contourArea: the area enclosed by the outline through pixel centres.
contourArea(c) == (c.x1 - c.x0) * (c.h - 1)

\* A variant that measures the box between the outermost pixel centres.
boundingRectArea_exclusive(c) == (c.x1 - c.x0) * (c.h - 1)

\* cv::boundingRect(c).area(): the box covers the pixels themselves.
boundingRectArea(c) == (c.x1 - c.x0 + 1) * c.h

\* cv::moments(c): m00 is the enclosed area, m10 / m00 the centroid.
M00(c) == contourArea(c)
M10x2(c) == contourArea(c) * (c.x0 + c.x1)

\* std::max_element with contourArea as the order: the first contour none
\* of the others exceeds.
MaxElement(contours) ==
    contours[CHOOSE i \in DOMAIN contours :
        /\ \A j \in DOMAIN contours :
              contourArea(contours[j]) <= contourArea(contours[i])
        /\ \A j \in 1..(i - 1) :
              contourArea(contours[j]) < contourArea(contours[i])]

\* The contours handed back for a slice: none, a single pixel, a blob
\* centred on the slice, and a blob on the left followed by a larger one on
\* the right.
PointContour == [x0 |-> 2, x1 |-> 2, h |-> 1]
CentreContour == [x0 |-> 3, x1 |-> 5, h |-> 2]
LeftContour == [x0 |-> 0, x1 |-> 2, h |-> 2]
RightContour == [x0 |-> 4, x1 |-> 7, h |-> 2]
SampleContourLists(sh) ==
    {l \in {<<>>, <<PointContour>>, <<CentreContour>>,
            <<LeftContour, RightContour>>, <<LeftContour>>} :
        \A k \in DOMAIN l : l[k].h <= sh /\ l[k].x1 < FrameCols}

\* cv::threshold(.., THRESH_BINARY_INV), morphologyEx and findContours on a
\* slice of the given mean: a pixel at or below the threshold is foreground,
\* and a slice whose mean does not exceed the threshold has such a pixel,
\* hence at least one contour.
FindContours(mean, thr, sh) ==
    {l \in SampleContourLists(sh) : l = <<>> => mean > thr}

\* int startY = i * sliceHeight;
SliceStart_next(i, sh) == (i + 1) * sh
SliceStart(i, sh) == i * sh

\* The frames handed to the processors: renderFrame always cuts 4 slices,
\* FrameProcessor as many as it was constructed with.
FrameRows(n) == (n..MaxRows) \cup {FullRows}
GrayImages(n, r) ==
    {[band |-> b, tail |-> t] :
        b \in [1..n -> SampleMeans],
        t \in IF r % n = 0 THEN {0} ELSE SampleMeans}

InitFrame ==
    /\ SessionIdle
    /\ TrackIdle
    /\ MainIdle
    /\ fImpl \in {"renderFrame", "processFrame"}
    /\ debugMode \in IF fImpl = "processFrame" THEN BOOLEAN ELSE {FALSE}
    /\ slices \in IF fImpl = "renderFrame" THEN {RenderFrameSlices}
                  ELSE 1..MaxSlices
    /\ rows \in FrameRows(slices)
    /\ cols = FrameCols
    /\ gray \in IF fImpl = "renderFrame" THEN GrayImages(slices, rows)
                ELSE {g \in GrayImages(slices, rows) : g.tail = 0}
    /\ fphase = "begin"
    /\ sliceHeight = 0
    /\ thresholdValue = 0
    /\ fpc = 0
    /\ sliceIn = <<>>
    /\ thresholds = <<>>
    /\ contourCenters = <<>>
    /\ sliceDirections = <<>>
    /\ divisors = {}
    /\ dirty = {}

sessionVars == <<impl, pc, result, camState, connected, buffers,
                 everAllocated, maps, mappedBuffers, frameBuffers, requests,
                 requestsAlive, meta, hwQueue, doneQ, hk, hreq, hStatus,
                 hMeta, hBuf, reading, nRender, nQueue, hErr, escaped,
                 qRejected, uaf, stopPending, startFault, todo, idx, cmState,
                 configFault, mainVars>>

frameParams == <<fImpl, debugMode, rows, cols, slices, gray>>

\* renderFrame up to the loop: the threshold from the mean intensity of the
\* whole image, the slice height, sliceDirections(slices, 0).
RF_begin ==
    /\ fImpl = "renderFrame" /\ fphase = "begin"
    /\ sliceHeight' = rows \div slices
    /\ thresholdValue' = ThresholdOf(ImageSum(gray, rows \div slices, rows),
                                     rows)
    /\ sliceDirections' = [i \in 1..slices |-> 0]
    /\ fphase' = "loop"
    /\ UNCHANGED <<sessionVars, trackVars, frameParams, fpc, sliceIn,
                   thresholds, contourCenters, divisors, dirty>>

\* (sliceMiddleX - contourCenterX) * (contourArea / boundingRect.area())
\* converted to int.  A zero divisor gives inf or NaN, whose conversion to
\* int is undefined.
Directions(d, c) ==
    IF boundingRectArea(c) = 0 THEN {-1, 0, 1}
    ELSE {TruncDiv(d * contourArea(c), boundingRectArea(c))}

\* (M.m00 != 0) ? static_cast<int>(M.m10 / M.m00) : 0
RF_contourCenterX(c) ==
    IF M00(c) # 0 THEN M10x2(c) \div (2 * M00(c)) ELSE 0

\* One iteration of renderFrame's loop over the slices.
RF_slice ==
    /\ fImpl = "renderFrame" /\ fphase = "loop" /\ fpc < slices
    /\ \E contours \in FindContours(gray.band[fpc + 1], thresholdValue,
                                     sliceHeight) :
        LET startY == SliceStart(fpc, sliceHeight)
            red == <<cols \div 2, sliceHeight \div 2 + startY>>
        IN  /\ sliceIn' = Append(sliceIn,
                    [startY |-> startY, height |-> sliceHeight,
                     mean |-> gray.band[fpc + 1], contours |-> contours])
            /\ thresholds' = Append(thresholds, thresholdValue)
            /\ IF contours # <<>>
               THEN LET mainContour == MaxElement(contours)
                        cx == RF_contourCenterX(mainContour)
                        white == <<cx, sliceHeight \div 2 + startY>>
                    IN  /\ contourCenters' = Append(contourCenters,
                                [x |-> cx, y |-> sliceHeight \div 2 + startY])
                        /\ \E dir \in Directions(cols \div 2 - cx, mainContour) :
                              sliceDirections' =
                                  [sliceDirections EXCEPT ![fpc + 1] = dir]
                        /\ divisors' = divisors
                                \cup {boundingRectArea(mainContour)}
                        /\ dirty' = dirty \cup {white, red}
               ELSE /\ dirty' = dirty \cup {red}
                    /\ UNCHANGED <<contourCenters, sliceDirections, divisors>>
    /\ fpc' = fpc + 1
    /\ UNCHANGED <<sessionVars, trackVars, frameParams, fphase, sliceHeight,
                   thresholdValue>>

\* processFrame up to the loop.
PF_begin ==
    /\ fImpl = "processFrame" /\ fphase = "begin"
    /\ sliceHeight' = rows \div slices
    /\ fphase' = "loop"
    /\ UNCHANGED <<sessionVars, trackVars, frameParams, thresholdValue, fpc,
                   sliceIn, thresholds, contourCenters, sliceDirections,
                   divisors, dirty>>

\* (M.m00 != 0) ? static_cast<int>(M.m10 / M.m00) : slice.cols / 2
PS_contourCenterX(c, sliceCols) ==
    IF M00(c) # 0 THEN M10x2(c) \div (2 * M00(c)) ELSE sliceCols \div 2

\* processSlice: the x of the point it returns.
processSliceX(contours, sliceCols) ==
    IF contours = <<>> THEN sliceCols \div 2
    ELSE PS_contourCenterX(MaxElement(contours), sliceCols)

\* One iteration of processFrame's loop: processSlice on slice i, then the
\* push_back and the debug drawing.
PF_slice ==
    /\ fImpl = "processFrame" /\ fphase = "loop" /\ fpc < slices
    /\ \E contours \in FindContours(gray.band[fpc + 1],
                                     ThresholdOf(gray.band[fpc + 1], 1),
                                     sliceHeight) :
        LET startY == SliceStart(fpc, sliceHeight)
            cx == processSliceX(contours, cols)
            cy == sliceHeight \div 2 + fpc * sliceHeight
            red == <<cols \div 2, sliceHeight \div 2 + startY>>
        IN  /\ sliceIn' = Append(sliceIn,
                    [startY |-> startY, height |-> sliceHeight,
                     mean |-> gray.band[fpc + 1], contours |-> contours])
            /\ thresholds' = Append(thresholds,
                    ThresholdOf(gray.band[fpc + 1], 1))
            /\ contourCenters' = Append(contourCenters, [x |-> cx, y |-> cy])
            /\ divisors' = IF debugMode /\ contours # <<>>
                           THEN divisors \cup
                                {boundingRectArea(MaxElement(contours))}
                           ELSE divisors
            /\ dirty' = IF ~debugMode THEN dirty
                        ELSE IF contours # <<>>
                             THEN dirty \cup {<<cx, cy>>, red}
                             ELSE dirty \cup {red}
    /\ fpc' = fpc + 1
    /\ UNCHANGED <<sessionVars, trackVars, frameParams, fphase, sliceHeight,
                   thresholdValue, sliceDirections>>

\* After the loop: the lines between the centres, then cv::imshow.
FrameShow ==
    /\ fphase = "loop" /\ fpc = slices
    /\ fphase' = "shown"
    /\ dirty' = IF (fImpl = "renderFrame" \/ debugMode)
                   /\ Len(contourCenters) > 1
                THEN dirty \cup {<<contourCenters[k].x, contourCenters[k].y>> :
                                    k \in DOMAIN contourCenters}
                ELSE dirty
    /\ UNCHANGED <<sessionVars, trackVars, frameParams, sliceHeight,
                   thresholdValue, fpc, sliceIn, thresholds, contourCenters,
                   sliceDirections, divisors>>

NextFrame == RF_begin \/ RF_slice \/ PF_begin \/ PF_slice \/ FrameShow

SpecFrame == InitFrame /\ [][NextFrame]_vars

---------------------------------------------------------------------------
(* processSlice on the same slice of successive frames *)

\* Width of the frames followed.
TrackCols == 200

\* The contours a frame may show: the line near column 100 (large or
\* small), and larger dark regions 40 columns to either side.
TrackContours ==
    {[x0 |-> 98, x1 |-> 102, h |-> 3], [x0 |-> 102, x1 |-> 104, h |-> 2],
     [x0 |-> 96, x1 |-> 98, h |-> 2], [x0 |-> 130, x1 |-> 150, h |-> 3],
     [x0 |-> 50, x1 |-> 70, h |-> 3]}
TrackContourLists ==
    {<<>>} \cup {<<c>> : c \in TrackContours}
           \cup {<<c, d>> : c \in TrackContours, d \in TrackContours}

InitTrack == SessionIdle /\ FrameIdle /\ TrackIdle /\ MainIdle

\* The next frame arrives and processSlice returns the centre for it.
\* Nothing of the frame before is kept by the code: previousCentroidX only
\* remembers what was returned then.
TrackFrame ==
    /\ \E contours \in TrackContourLists :
        /\ trackIn' = contours
        /\ trackOut' = processSliceX(contours, TrackCols)
    /\ previousCentroidX' = trackOut
    /\ UNCHANGED <<sessionVars, frameVars>>

NextTrack == TrackFrame

SpecTrack == InitTrack /\ [][NextTrack]_vars

---------------------------------------------------------------------------
(* the main program, src/brains.c *)

\* Iterations of the wait loop that are told apart.
MaxLoops == 8

\* main has installed stopHandler; camera = NULL, running = 1.
InitMain ==
    /\ SessionIdle /\ FrameIdle /\ TrackIdle
    /\ mpc = "m_init"
    /\ running = 1
    /\ thState = "none"
    /\ nTerminate = 0
    /\ loops = 0

\* What main never touches: the capture session apart from the manager
\* behind `camera` and the exit status.
mainQuiet == <<impl, pc, camState, connected, buffers, everAllocated, maps,
               mappedBuffers, frameBuffers, requests, requestsAlive, meta,
               hwQueue, doneQ, hk, hreq, hStatus, hMeta, hBuf, reading,
               nRender, nQueue, hErr, escaped, qRejected, uaf, stopPending,
               startFault, todo, idx, configFault, frameVars, trackVars>>

\* stopHandler: SIGINT arrives while the process lives.
StopHandler ==
    /\ mpc \notin {"none", "m_exit"}
    /\ running = 1
    /\ running' = 0
    /\ UNCHANGED <<mainQuiet, cmState, result, mpc, thState, nTerminate,
                   loops>>

\* camera = cameraInit(); if (!camera) return EXIT_FAILURE;
M_cameraInit ==
    /\ mpc = "m_init"
    /\ \E ok \in BOOLEAN :
        IF ok
        THEN cmState' = "started" /\ mpc' = "m_create" /\ UNCHANGED result
        ELSE cmState' = "null" /\ mpc' = "m_exit"
             /\ result' = "EXIT_FAILURE"
    /\ UNCHANGED <<mainQuiet, running, thState, nTerminate, loops>>

\* cameraTerminate(camera) as main calls it: if (cm) { cm->stop(); delete cm; }
M_cameraTerminate ==
    /\ nTerminate' = nTerminate + 1
    /\ cmState' = IF cmState = "null" THEN "null" ELSE "deleted"

\* if (pthread_create(..) != 0) { cameraTerminate(camera); return EXIT_FAILURE; }
M_create ==
    /\ mpc = "m_create"
    /\ \E ok \in BOOLEAN :
        IF ok
        THEN /\ thState' = "created"
             /\ mpc' = "m_while"
             /\ UNCHANGED <<cmState, nTerminate, result>>
        ELSE /\ M_cameraTerminate
             /\ mpc' = "m_exit"
             /\ result' = "EXIT_FAILURE"
             /\ UNCHANGED thState
    /\ UNCHANGED <<mainQuiet, running, loops>>

\* cameraThreadRoutine is scheduled and enters runCamera(camera).
T_run ==
    /\ thState = "created"
    /\ thState' = "running"
    /\ UNCHANGED <<mainQuiet, cmState, result, mpc, running, nTerminate,
                   loops>>

\* runCamera returns and the thread ends.
T_return ==
    /\ thState = "running"
    /\ thState' = "finished"
    /\ UNCHANGED <<mainQuiet, cmState, result, mpc, running, nTerminate,
                   loops>>

\* while (running)
M_while ==
    /\ mpc = "m_while"
    /\ mpc' = IF running # 0 THEN "m_sleep" ELSE "m_join"
    /\ UNCHANGED <<mainQuiet, cmState, result, running, thState, nTerminate,
                   loops>>

\* usleep(100000); printf("Running\n");
M_sleep ==
    /\ mpc = "m_sleep"
    /\ loops < MaxLoops
    /\ loops' = loops + 1
    /\ mpc' = "m_while"
    /\ UNCHANGED <<mainQuiet, cmState, result, running, thState, nTerminate>>

\* A variant in which main does not wait for the thread.
M_join_nowait ==
    /\ mpc = "m_join"
    /\ mpc' = "m_terminate"
    /\ UNCHANGED <<mainQuiet, cmState, result, running, thState, nTerminate,
                   loops>>

\* pthread_join(cameraThread, NULL): returns once the thread has ended.  The
\* thread is joinable and joined by main only, so the call cannot fail.
M_join ==
    /\ mpc = "m_join"
    /\ thState = "finished"
    /\ thState' = "joined"
    /\ mpc' = "m_terminate"
    /\ UNCHANGED <<mainQuiet, cmState, result, running, nTerminate, loops>>

\* cameraTerminate(camera); return EXIT_SUCCESS;
M_terminate ==
    /\ mpc = "m_terminate"
    /\ M_cameraTerminate
    /\ mpc' = "m_exit"
    /\ result' = "EXIT_SUCCESS"
    /\ UNCHANGED <<mainQuiet, running, thState, loops>>

NextMain ==
    \/ StopHandler \/ M_cameraInit \/ M_create \/ T_run \/ T_return
    \/ M_while \/ M_sleep \/ M_join \/ M_terminate

SpecMain == InitMain /\ [][NextMain]_vars

---------------------------------------------------------------------------
(* vocabulary of the properties *)

\* start() has returned successfully and shutdown has not begun.
StartDone ==
    \/ impl = "captureFrame" /\ pc = "cf_sleep"
    \/ impl = "CameraSensor" /\ pc = "started"

\* The capture subsystem is running and has accepted every queueRequest call.
SubsystemHealthy == camState = "Running" /\ ~qRejected

\* Positions of queue q that hold a Request bound to buffer b.
BoundIn(q, b) == {i \in 1..Len(q) : requests[q[i]].buf = b}

\* The handler is between the delivery of a completion and its return.
Handling == hk # <<>>

\* Requests in flight: Pending, or Completed and not yet resubmitted.
InFlight ==
    Len(hwQueue)
    + Cardinality({i \in 1..Len(doneQ) :
                     requests[doneQ[i]].status = "RequestComplete"})
    + (IF Handling /\ hStatus = "RequestComplete" THEN 1 ELSE 0)

\* The last completion delivered to the handler has been fully handled.
Handled == hreq # 0 /\ hk = <<>>

CancelledRequests ==
    {r \in 1..Len(requests) : requests[r].status = "RequestCancelled"}

\* The allocator's buffers have been released.
Freed == everAllocated # {} /\ buffers = {}

---------------------------------------------------------------------------
(* C1 *)

\* C1 (as claimed): from the end of start() until shutdown begins, with the
\* capture subsystem running and accepting every request, the number of
\* Requests in flight equals the number of allocated Buffers.
C1_InFlightEqualsBuffers ==
    (StartDone /\ SubsystemHealthy) => InFlight = Cardinality(buffers)

---------------------------------------------------------------------------
(* C2 *)

\* Places a buffer can be: bound to a Pending Request, to a Request whose
\* completion is not delivered yet, or to the Request the handler is
\* handling.
Holders(b) ==
    Cardinality(BoundIn(hwQueue, b)) + Cardinality(BoundIn(doneQ, b))
    + (IF Handling /\ hBuf = b THEN 1 ELSE 0)

\* C2: no Buffer is bound to more than one Pending Request, and the events of
\* each Buffer are serialized (submit, complete, resubmit, ...): a Buffer is
\* never Pending while a completion of it is undelivered or being handled.
C2_OnePendingRequestPerBuffer ==
    \A b \in BufferIds :
        /\ Cardinality(BoundIn(hwQueue, b)) <= 1
        /\ Holders(b) <= 1

\* Two Buffers are Pending at once, one of them just resubmitted by the
\* handler.
C2_Witness ==
    /\ Len(hwQueue) >= 2
    /\ Handled /\ nQueue = 1
    /\ hreq \in Range(hwQueue)

---------------------------------------------------------------------------
(* C3 *)

\* C3: while the tracker reads a Buffer's mapped region, the Request it
\* belongs to is Completed and being handled, and no Pending Request is bound
\* to that Buffer (it is resubmitted only after the tracker returned).
C3_NoReadWhilePending ==
    reading # 0 =>
        /\ BoundIn(hwQueue, reading) = {}
        /\ Handling /\ hStatus = "RequestComplete" /\ hBuf = reading
        /\ nQueue = 0

\* The tracker reads one Buffer while another Request is Pending.
C3_Witness == reading # 0 /\ hwQueue # <<>>

---------------------------------------------------------------------------
(* C4 *)

\* A completion with status Completed and frame status success.
GoodFrame == hStatus = "RequestComplete" /\ hMeta = "FrameSuccess"

\* C4 (state part): a good frame is given to the tracker at most once and
\* resubmitted at most once, the tracker first; when the handler has
\* returned, both happened exactly once and the Request is still bound to
\* the Buffer it completed with.
C4_State ==
    (hreq # 0 /\ GoodFrame) =>
        /\ nRender <= 1 /\ nQueue <= 1
        /\ nQueue = 1 => nRender = 1
        /\ hk = <<>> => /\ nRender = 1 /\ nQueue = 1
                        /\ requests[hreq].buf = hBuf /\ hBuf # 0

\* C4 (step part): the step that ends the handling of a good frame leaves the
\* Request Pending whenever the camera is running.
C4_Step ==
    (Handling /\ hk' = <<>> /\ GoodFrame /\ camState = "Running")
        => hreq \in Range(hwQueue')

\* C4: for every completion with status Completed and frame status success
\* the handler runs the tracker once and then resubmits the same Request
\* exactly once, bound to the same Buffer.
C4_TrackOnceResubmitOnce == [](C4_State) /\ [][C4_Step]_vars

\* A good frame was tracked and its Request is Pending again.
C4_Witness ==
    /\ Handled /\ GoodFrame
    /\ nRender = 1 /\ nQueue = 1
    /\ hreq \in Range(hwQueue)

---------------------------------------------------------------------------
(* C5 *)

\* C5 (state part): a Cancelled completion makes no renderFrame and no
\* queueRequest call, and no Cancelled Request is Pending.
C5_State ==
    /\ (hreq # 0 /\ hStatus = "RequestCancelled")
          => nRender = 0 /\ nQueue = 0 /\ reading = 0
    /\ \A r \in CancelledRequests : r \notin Range(hwQueue)

\* C5 (step part): a Cancelled Request stays Cancelled.
C5_Step ==
    \A r \in CancelledRequests : requests'[r].status = "RequestCancelled"

\* C5: when the handler is invoked with a Cancelled Request it neither runs
\* the tracker nor resubmits it, and the Request stays out of the in-flight
\* set from then on.
C5_CancelledIsDropped == [](C5_State) /\ [][C5_Step]_vars

\* A cancellation was delivered to the handler and handled.
C5_Witness == Handled /\ hStatus = "RequestCancelled"

---------------------------------------------------------------------------
(* C6 *)

\* C6 (as claimed): a Request that completed with a hardware frame error is
\* not tracked and is resubmitted when the handler returns.
C6_BadFrameResubmitted ==
    (Handled /\ hStatus = "RequestComplete" /\ hMeta = "FrameError")
        => nRender = 0 /\ nQueue = 1

---------------------------------------------------------------------------
(* C7 *)

\* C7: a processing error raised by the tracker never leaves the completion
\* handler, and once the handler has returned the Request has been
\* resubmitted (and is in flight again while the camera runs).
C7_ProcessingErrorContained ==
    /\ ~escaped
    /\ (Handled /\ hErr) =>
          /\ nQueue = 1
          /\ camState = "Running"
                => hreq \in Range(hwQueue) \cup Range(doneQ)

\* The tracker raised an error and the Request is Pending again.
C7_Witness == Handled /\ hErr /\ nQueue = 1 /\ hreq \in Range(hwQueue)

---------------------------------------------------------------------------
(* C8 *)

\* C8 (as claimed, its safety half): while shutdown has not been requested
\* and the capture subsystem is healthy, at least one Request is in flight.
C8_NeverStalls == (StartDone /\ SubsystemHealthy) => InFlight >= 1

---------------------------------------------------------------------------
(* C9 *)

\* C9: if creating a Request or binding its Buffer fails, start() reports the
\* failure and no Request has been submitted: none is queued, none was ever
\* completed or offered to the camera.
C9_AllOrNothingStart ==
    startFault # "none" =>
        /\ result \in {"-7", "-8", "threw"}
        /\ hwQueue = <<>> /\ doneQ = <<>> /\ hreq = 0
        /\ ~qRejected
        /\ camState # "Running"
        /\ \A r \in 1..Len(requests) : requests[r].status = "RequestPending"

\* Binding the Buffer of a later Request failed after an earlier Request had
\* been created.
C9_Witness ==
    /\ impl = "captureFrame"
    /\ startFault = "addBuffer"
    /\ Len(requests) >= 1

---------------------------------------------------------------------------
(* C10 *)

\* C10 (state part): once the Buffers are released the camera has been
\* halted, nothing is outstanding, and every Request that was Pending when
\* stop() was called has been Cancelled.
C10_State ==
    Freed =>
        /\ camState \notin {"Running", "Stopping"}
        /\ hwQueue = <<>> /\ doneQ = <<>> /\ hk = <<>>
        /\ Cardinality(CancelledRequests) = stopPending

\* C10 (step part): the step that frees the Buffers finds no Request
\* outstanding, and a step that unmaps a region of a Buffer finds no Pending
\* Request bound to it.
C10_Step ==
    /\ (buffers # {} /\ buffers' = {})
          => hwQueue = <<>> /\ doneQ = <<>> /\ hk = <<>>
             /\ camState \notin {"Running", "Stopping"}
    /\ \A b \in BufferIds :
          maps'[b] < maps[b] => BoundIn(hwQueue, b) = {}

---------------------------------------------------------------------------
(* C11: every mapping is released by teardown *)

\* The session is over: captureFrame has returned, or the CameraSensor has
\* been destroyed, and no completion handler is still running.
TornDown == pc \in {"returned", "destroyed"} /\ hk = <<>>

\* C11: once teardown has finished, every region that was mapped has been
\* unmapped: no buffer is left with a live mapping.
C11_MappingsReleased == TornDown => \A b \in BufferIds : maps[b] = 0

---------------------------------------------------------------------------
(* C12: the mapping of a buffer is created once, during configuration *)

\* C12: a mapping is only ever created by the configuration step; no step
\* taken while a completed frame is handled maps a buffer.
C12_MappedOnlyAtConfiguration ==
    [][\A b \in BufferIds : maps'[b] > maps[b] => pc = "cc_map"]_vars

---------------------------------------------------------------------------
(* C13: processing a frame only reads the mapped region *)

\* C13: the frame processor never writes into the mapped region: no pixel
\* of the region is overwritten while a frame is processed.
C13_MappedRegionUnchanged == dirty = {}

---------------------------------------------------------------------------
(* C14: a configuration failure is reported and stops the configuration *)

\* What the caller sees for each failing configuration call.
FaultReport ==
    IF impl = "captureFrame"
    THEN [generate |-> "-4", configure |-> "-5", allocate |-> "-6",
          mmap |-> "none"]
    ELSE [generate |-> "none", configure |-> "-EINVAL",
          allocate |-> "-ENOMEM", mmap |-> "threw"]

C14_State ==
    configFault # "none" =>
        /\ result = FaultReport[configFault]
        /\ requests = <<>>
        /\ hwQueue = <<>> /\ doneQ = <<>>
        /\ nQueue = 0
        /\ pc \notin {"configured", "sc_connect", "sc_start", "sc_queue",
                      "started", "cf_create", "cf_connect", "cf_start",
                      "cf_queue", "cf_sleep"}

C14_Step ==
    configFault # "none" =>
        /\ configFault' = configFault
        /\ maps' = maps
        /\ frameBuffers' = frameBuffers
        /\ requests' = requests
        /\ camState' \in {camState, "Available"}

---------------------------------------------------------------------------
(* C15: a slice without a contour reports its midpoint *)

\* The rows of the k-th processed slice, and the y its centre is reported at.
SliceRows(k) ==
    sliceIn[k].startY .. (sliceIn[k].startY + sliceIn[k].height - 1)
SliceCentreY(k) == sliceIn[k].startY + sliceIn[k].height \div 2

\* C15: once a frame is processed, every slice in which no contour was
\* found has a reported centroid, and its X is the slice midpoint cols / 2.
C15_EmptySliceReportsMidpoint ==
    fphase = "shown" =>
        \A k \in DOMAIN sliceIn :
            sliceIn[k].contours = <<>> =>
                \E j \in DOMAIN contourCenters :
                    /\ contourCenters[j].y = SliceCentreY(k)
                    /\ contourCenters[j].x = cols \div 2

---------------------------------------------------------------------------
(* C16: the weight is never computed with a zero divisor *)

---------------------------------------------------------------------------
(* C17: temporal correction *)

Distance(a, b) == IF a >= b THEN a - b ELSE b - a

\* The centroids of the contours of the last frame that lie within the
\* jitter tolerance of the previous centroid.
NearPrevious ==
    {PS_contourCenterX(trackIn[k], TrackCols) : k \in
        {j \in DOMAIN trackIn :
            Distance(PS_contourCenterX(trackIn[j], TrackCols),
                     previousCentroidX) <= 5}}

\* C17: when the largest contour's centroid is more than 5 px from the
\* previous frame's centroid and another contour of the frame lies within
\* 5 px of it, the centroid returned is that of such a contour, not of the
\* largest one.
C17_TemporalCorrection ==
    (/\ previousCentroidX # -1
     /\ trackIn # <<>>
     /\ Distance(PS_contourCenterX(MaxElement(trackIn), TrackCols),
                 previousCentroidX) > 5
     /\ NearPrevious # {})
        => trackOut \in NearPrevious

---------------------------------------------------------------------------
(* C18: the CameraManager outlives captureFrame *)

C18_State ==
    impl = "captureFrame" /\ cmState \in {"stopped", "deleted"}
        => pc = "returned"

C18_Step ==
    impl = "captureFrame" /\ cmState' # cmState
        => pc = "returned" /\ pc' = "returned" /\ cmState' = "deleted"

\* C18: no return path of captureFrame stops or deletes the CameraManager;
\* it changes only after captureFrame has returned, by cameraTerminate.
C18_ManagerOutlivesCapture == []C18_State /\ [][C18_Step]_vars

\* captureFrame has run a whole session and returned: the manager is still
\* started.
C18_Witness ==
    /\ impl = "captureFrame" /\ pc = "returned" /\ result = "0"
    /\ cmState = "started"

---------------------------------------------------------------------------
(* C19: each slice is thresholded from its own mean *)

\* C19: the threshold applied to a slice is clamp(mean * 0.95, 90, 170) of
\* that slice's own mean intensity, whatever the other slices hold, and
\* that value lies in 90..170 for every mean in 0..255.
C19_ThresholdFromOwnMean ==
    /\ \A k \in DOMAIN thresholds :
          thresholds[k] = Clamp((sliceIn[k].mean * 95) \div 100, 90, 170)
    /\ \A m \in 0..255 : Clamp((m * 95) \div 100, 90, 170) \in 90..170

---------------------------------------------------------------------------
(* C20: the slices partition the rows of the frame *)

\* C20: slice i covers the rows [i * (H/N), (i+1) * (H/N)); the slices are
\* pairwise disjoint and inside the frame, and once the frame is processed
\* a row r < N * (H/N) lies in exactly the slice of index r / (H/N).
C20_SlicesPartitionRows ==
    LET sh == rows \div slices
    IN  /\ \A k \in DOMAIN sliceIn :
              /\ sliceIn[k].height = sh
              /\ sliceIn[k].startY = (k - 1) * sh
              /\ sliceIn[k].startY >= 0
              /\ sliceIn[k].startY + sliceIn[k].height <= rows
        /\ \A k, j \in DOMAIN sliceIn :
              k # j => SliceRows(k) \cap SliceRows(j) = {}
        /\ fphase = "shown" =>
              /\ Len(sliceIn) = slices
              /\ \A r \in 0..(slices * sh - 1) :
                    {k \in DOMAIN sliceIn : r \in SliceRows(k)}
                        = {r \div sh + 1}

\* Row 200 of a processed 480-row frame cut in 4 lies in slice 1.
C20_Witness ==
    /\ fphase = "shown" /\ rows = FullRows /\ slices = 4
    /\ 200 \in SliceRows(2)
    /\ \A k \in DOMAIN sliceIn : k # 2 => 200 \notin SliceRows(k)

---------------------------------------------------------------------------
(* C21: one centroid per slice, top to bottom *)

\* C21: once a frame is processed there is exactly one centroid per slice,
\* entry i is that of slice i at y = i * sliceHeight + sliceHeight / 2, and
\* the y coordinates increase strictly, contour or no contour.
C21_OneCentroidPerSlice ==
    fphase = "shown" =>
        /\ Len(contourCenters) = slices
        /\ \A k \in DOMAIN contourCenters :
              contourCenters[k].y
                  = (k - 1) * (rows \div slices) + (rows \div slices) \div 2
        /\ \A k \in DOMAIN contourCenters :
              k > 1 => contourCenters[k - 1].y < contourCenters[k].y

---------------------------------------------------------------------------
(* C22: the offset of a slice is midpoint minus centroid *)

\* The centroid X reported for the k-th processed slice, which has one.
ReportedX(k) ==
    LET j == CHOOSE i \in DOMAIN contourCenters :
                 contourCenters[i].y = SliceCentreY(k)
    IN  contourCenters[j].x

\* C22: for a slice with a contour the offset stored for the slice is
\* exactly sliceMidpointX - centroidX; the weight contourArea /
\* boundingBoxArea does not enter it.
C22_OffsetIsMidMinusCentroid ==
    \A k \in DOMAIN sliceIn \cap DOMAIN sliceDirections :
        sliceIn[k].contours # <<>> =>
            sliceDirections[k] = cols \div 2 - ReportedX(k)

---------------------------------------------------------------------------
(* C23: a primary contour with M00 = 0 reports the midpoint *)

\* C23: the centroid X reported for a slice with a contour is M10 / M00
\* truncated when M00 # 0 and the slice midpoint when M00 = 0, in
\* renderFrame as in processSlice.
C23_ZeroMomentFallsBackToMidpoint ==
    \A k \in DOMAIN sliceIn :
        sliceIn[k].contours # <<>> =>
            LET c == MaxElement(sliceIn[k].contours)
            IN  ReportedX(k) = IF M00(c) = 0 THEN cols \div 2
                               ELSE M10x2(c) \div (2 * M00(c))

---------------------------------------------------------------------------
(* C24: the handler is connected before start and queue *)

\* C24: whenever the camera has been started, a Request is queued or a
\* completion event awaits delivery, the completion handler is connected.
C24_HandlerConnectedFirst ==
    (\/ camState \in {"Running", "Stopping"}
     \/ hwQueue # <<>>
     \/ doneQ # <<>>
     \/ pc \in {"cf_queue", "sc_queue"})
        => connected > 0

\* A completion event of a queued Request awaits delivery during start-up.
C24_Witness ==
    /\ doneQ # <<>> /\ connected > 0
    /\ pc \in {"cf_queue", "sc_queue"}

---------------------------------------------------------------------------
(* C25: captureFrame gives back what it acquired *)

\* C25: once captureFrame has returned, with 0 or with an error code, the
\* camera is not left acquired by the call and the buffers it allocated
\* have been freed.
C25_ReleasedOnEveryReturn ==
    impl = "captureFrame" /\ pc = "returned"
        => camState = "Available" /\ buffers = {}

---------------------------------------------------------------------------
(* C26: main calls cameraTerminate once, after the join *)

C26_State ==
    /\ nTerminate <= 1
    /\ (mpc = "m_exit" /\ cmState # "null") => nTerminate = 1
    /\ (nTerminate = 1 /\ thState # "none")
          => thState = "joined" /\ running = 0

C26_Step ==
    nTerminate' # nTerminate => thState \notin {"created", "running"}

====
